---------------------------- MODULE Spec2Model ----------------------------
(***************************************************************************)
(* Model of fermat.py: modular exponentiation by exponent halving          *)
(* (mod_exp), the Fermat test (run_fermat), the Miller-Rabin test          *)
(* (run_miller_rabin) and their composition (prime_test).                  *)
(*                                                                         *)
(* The two tests are loops over range(1, k); each iteration draws a        *)
(* witness with random.randint(1, N - 1).  A behaviour of the model is one *)
(* call of one entry point, one loop iteration (or one pass of the inner   *)
(* while loop) per step.                                                   *)
(***************************************************************************)
EXTENDS Integers, Sequences, FiniteSets

VARIABLES
    entry,      \* the function that was called
    N, k,       \* arguments of run_fermat / run_miller_rabin / prime_test
    x, y,       \* arguments of a direct call mod_exp(x, y, N)
    result,     \* value returned by the direct call of mod_exp
    tape, pos,  \* the random source when it is seeded: its outputs, and the next one
    pc,         \* position in the code
    i,          \* loop variable of `for i in range(1, k)`
    a,          \* witness of the current trial
    exponent,   \* run_miller_rabin: local `exponent`
    z,          \* run_miller_rabin: local `z`
    fermat,     \* value returned by run_fermat
    mr,         \* value returned by run_miller_rabin
    fdraws,     \* number of witnesses run_fermat has drawn
    mdraws,     \* number of witnesses run_miller_rabin has drawn
    passed,     \* exponents handed to mod_exp by the while loop of the current trial
    fcoprime,   \* every witness run_fermat has drawn is coprime to N
    mcoprime,   \* every witness run_miller_rabin has drawn is coprime to N
    stack,      \* large candidates: the pending calls of mod_exp, each by its y
    ret         \* large candidates: the value the last call of mod_exp returned

vars == <<entry, N, k, x, y, result, tape, pos, pc, i, a, exponent, z,
          fermat, mr, fdraws, mdraws, passed, fcoprime, mcoprime, stack, ret>>

-----------------------------------------------------------------------------
(* Bounds *)

MaxN == 100         \* candidates N of the tests range over -1 .. MaxN
MaxK == 4           \* trial counts k range over -1 .. MaxK
MaxSeededN == 15    \* candidates of the runs with a seeded random source
MaxBase == 5        \* mod_exp is called with x in -2 .. MaxBase
MaxExp == 8         \* mod_exp is called with y in 0 .. MaxExp
MaxMod == 8         \* mod_exp is called with N in 1 .. MaxMod

CarmichaelNumbers == {561, 1105}
CarmichaelK == 10

-----------------------------------------------------------------------------
(* Python numbers.  An int is its value; a float is tagged, because        *)
(* `exponent / 2` is true division and yields a float.  A float carries a  *)
(* 53 bit significand: the division rounds the quotient to the nearest     *)
(* double (ties to even).                                                  *)

DoubleMantissaBits == 53

PyInt(n) == [type |-> "int", val |-> n]
PyFloat(n) == [type |-> "float", val |-> n]

RECURSIVE BitLength(_)
BitLength(n) == IF n = 0 THEN 0 ELSE 1 + BitLength(n \div 2)

RoundToDouble(n) ==
    IF BitLength(n) <= DoubleMantissaBits THEN n
    ELSE LET unit == 2 ^ (BitLength(n) - DoubleMantissaBits)
             q == n \div unit
             r == n % unit
         IN  IF 2 * r > unit \/ (2 * r = unit /\ q % 2 = 1)
             THEN (q + 1) * unit ELSE q * unit

\* exponent / 2, for an exponent whose value is even (the while guard)
TrueDivBy2(e) == PyFloat(RoundToDouble(e.val \div 2))

-----------------------------------------------------------------------------
(* mod_exp *)

RECURSIVE mod_exp(_, _, _)
mod_exp(bx, by, bN) ==
    IF by = 0 THEN 1
    ELSE LET zz == mod_exp(bx, by \div 2, bN)
         IN  IF by % 2 = 0 THEN (zz * zz) % bN
             ELSE (bx * (zz * zz)) % bN

-----------------------------------------------------------------------------
(* The random source.  random.randint(lo, hi) returns an integer of        *)
(* lo .. hi and raises ValueError when the range is empty.  A seeded       *)
(* source replays `tape`; the entry "compare" is run_fermat(N, k) followed *)
(* by run_miller_rabin(N, k) with the source re-seeded in between, so that *)
(* both read the same witnesses.                                           *)

Seeded == entry = "compare"

randint(lo, hi) == IF Seeded THEN {tape[pos]} ELSE lo .. hi

randint_raises(lo, hi) == lo > hi

-----------------------------------------------------------------------------
(* Initial states: one call, arguments drawn from the bounded sets *)

RECURSIVE GCD(_, _)
GCD(p, q) == IF q = 0 THEN p ELSE GCD(q, p % q)

NoReturn == [has |-> FALSE, val |-> <<>>]

Locals ==
    /\ i = 1
    /\ a = 0
    /\ exponent = PyInt(0)
    /\ z = 0
    /\ fermat = "none"
    /\ mr = "none"
    /\ fdraws = 0
    /\ mdraws = 0
    /\ passed = <<>>
    /\ fcoprime = TRUE
    /\ mcoprime = TRUE
    /\ stack = <<>>
    /\ ret = NoReturn

InitModExp ==
    /\ entry = "mod_exp"
    /\ x \in -2 .. MaxBase
    /\ y \in 0 .. MaxExp
    /\ N \in 1 .. MaxMod
    /\ k = 0
    /\ result = -1
    /\ tape = <<>>
    /\ pos = 1
    /\ pc = "mod_exp"
    /\ Locals

InitTests ==
    /\ entry \in {"run_fermat", "run_miller_rabin", "prime_test"}
    /\ N \in -1 .. MaxN
    /\ k \in -1 .. MaxK
    /\ x = 0 /\ y = 0 /\ result = -1
    /\ tape = <<>>
    /\ pos = 1
    /\ pc = IF entry = "run_miller_rabin" THEN "mr_for" ELSE "fermat_for"
    /\ Locals

InitSeeded ==
    /\ entry = "compare"
    /\ N \in 2 .. MaxSeededN
    /\ k \in 1 .. MaxK
    /\ x = 0 /\ y = 0 /\ result = -1
    /\ tape \in [1 .. k - 1 -> 1 .. N - 1]
    /\ pos = 1
    /\ pc = "fermat_for"
    /\ Locals

InitCarmichael ==
    /\ entry = "prime_test"
    /\ N \in CarmichaelNumbers
    /\ k = CarmichaelK
    /\ x = 0 /\ y = 0 /\ result = -1
    /\ tape = <<>>
    /\ pos = 1
    /\ pc = "fermat_for"
    /\ Locals

Init == InitModExp \/ InitTests \/ InitSeeded

-----------------------------------------------------------------------------
(* A direct call of mod_exp *)

ModExpCall ==
    /\ pc = "mod_exp"
    /\ result' = mod_exp(x, y, N)
    /\ pc' = "done"
    /\ UNCHANGED <<entry, N, k, x, y, tape, pos, i, a, exponent, z, fermat, mr,
                   fdraws, mdraws, passed, fcoprime, mcoprime,
                   stack, ret>>

-----------------------------------------------------------------------------
(* run_fermat *)

\* a faulty variant of the check below: the exponent is N instead of N - 1
fermat_fails_exponent_N(w, n) == mod_exp(w, n, n) # 1

\* the check of one trial of run_fermat: TRUE when the witness fails
fermat_fails(w, n) == mod_exp(w, n - 1, n) # 1

\* run_fermat returns v; prime_test (and the comparison) go on to run_miller_rabin
FermatReturn(v) ==
    /\ fermat' = v
    /\ a' = 0
    /\ i' = 1
    /\ pc' = IF entry = "run_fermat" THEN "done" ELSE "mr_for"
    /\ pos' = IF Seeded THEN 1 ELSE pos

\* One iteration of `for i in range(1, k)`, with witness w.  Every iteration
\* binds `a` before it reads it: at the loop head the old value is dead, and
\* the model drops it (a = 0) there.
FermatTrial ==
    /\ pc = "fermat_for"
    /\ i < k
    /\ ~randint_raises(1, N - 1)
    /\ \E w \in randint(1, N - 1) :
         /\ fdraws' = fdraws + 1
         /\ fcoprime' = (fcoprime /\ GCD(w, N) = 1)
         /\ IF fermat_fails(w, N)
            THEN FermatReturn("composite")
            ELSE /\ a' = 0
                 /\ i' = i + 1
                 /\ pos' = pos + 1
                 /\ UNCHANGED <<pc, fermat>>
    /\ UNCHANGED <<entry, N, k, x, y, result, tape, exponent, z, mr, mdraws,
                   passed, mcoprime,
                   stack, ret>>

\* range(1, k) is exhausted
FermatReturnPrime ==
    /\ pc = "fermat_for"
    /\ ~(i < k)
    /\ FermatReturn("prime")
    /\ UNCHANGED <<entry, N, k, x, y, result, tape, exponent, z, mr, fdraws,
                   mdraws, passed, fcoprime, mcoprime,
                   stack, ret>>

-----------------------------------------------------------------------------
(* run_miller_rabin *)

\* a faulty variant of the check below: every witness goes on to the
\* while loop
initial_check_always(w, n) == TRUE

\* `if mod_exp(a, N - 1, N) == 1`
initial_check(w, n) == mod_exp(w, n - 1, n) = 1

\* one iteration of `for i in range(1, k)` up to the while loop
MillerRabinTrial ==
    /\ pc = "mr_for"
    /\ i < k
    /\ ~randint_raises(1, N - 1)
    /\ \E w \in randint(1, N - 1) :
         /\ a' = w
         /\ mdraws' = mdraws + 1
         /\ mcoprime' = (mcoprime /\ GCD(w, N) = 1)
         /\ pos' = pos + 1
         /\ IF initial_check(w, N)
            THEN /\ exponent' = PyInt(N - 1)
                 /\ z' = 1
                 /\ passed' = <<>>
                 /\ pc' = "mr_while"
                 /\ UNCHANGED mr
            ELSE /\ mr' = "composite"
                 /\ pc' = "done"
                 /\ UNCHANGED <<exponent, z, passed>>
    /\ UNCHANGED <<entry, N, k, x, y, result, tape, i, fermat, fdraws, fcoprime,
                   stack, ret>>

\* `while exponent % 2 == 0 and z == 1`
while_cond == exponent.val % 2 = 0 /\ z = 1

\* one pass of `while exponent % 2 == 0 and z == 1`
MillerRabinHalve ==
    /\ pc = "mr_while"
    /\ while_cond
    /\ exponent' = TrueDivBy2(exponent)
    /\ z' = mod_exp(a, exponent'.val, N)
    /\ passed' = Append(passed, exponent')
    /\ UNCHANGED <<entry, N, k, x, y, result, tape, pos, pc, i, a, fermat, mr,
                   fdraws, mdraws, fcoprime, mcoprime,
                   stack, ret>>

\* the check after the while loop: TRUE when the witness fails
final_fails(zz, n) == zz % n # n - 1 /\ zz % n # 1

\* The while loop is left.  A witness that passes ends the iteration: a,
\* exponent and z are dead until the next iteration rebinds them, and the
\* model drops them.
MillerRabinFinal ==
    /\ pc = "mr_while"
    /\ ~while_cond
    /\ IF final_fails(z, N)
       THEN /\ mr' = "composite"
            /\ pc' = "done"
            /\ UNCHANGED <<i, a, exponent, z, passed>>
       ELSE /\ i' = i + 1
            /\ pc' = "mr_for"
            /\ a' = 0
            /\ exponent' = PyInt(0)
            /\ z' = 0
            /\ passed' = <<>>
            /\ UNCHANGED mr
    /\ UNCHANGED <<entry, N, k, x, y, result, tape, pos, fermat,
                   fdraws, mdraws, fcoprime, mcoprime,
                   stack, ret>>

MillerRabinReturnPrime ==
    /\ pc = "mr_for"
    /\ ~(i < k)
    /\ mr' = "prime"
    /\ pc' = "done"
    /\ UNCHANGED <<entry, N, k, x, y, result, tape, pos, i, a, exponent, z,
                   fermat, fdraws, mdraws, passed, fcoprime, mcoprime,
                   stack, ret>>

-----------------------------------------------------------------------------
(* random.randint(1, N - 1) raises ValueError (N < 2); the exception leaves *)
(* the test, and prime_test, without a return value                        *)

RandintRaises ==
    /\ pc \in {"fermat_for", "mr_for"}
    /\ i < k
    /\ randint_raises(1, N - 1)
    /\ pc' = "raised"
    /\ UNCHANGED <<entry, N, k, x, y, result, tape, pos, i, a, exponent, z,
                   fermat, mr, fdraws, mdraws, passed, fcoprime, mcoprime,
                   stack, ret>>

-----------------------------------------------------------------------------

Tests ==
    \/ FermatTrial
    \/ FermatReturnPrime
    \/ MillerRabinTrial
    \/ MillerRabinHalve
    \/ MillerRabinFinal
    \/ MillerRabinReturnPrime

Next == ModExpCall \/ Tests \/ RandintRaises

Spec == Init /\ [][Next]_vars

\* prime_test(N, CarmichaelK) on the Carmichael numbers
SpecCarmichael == InitCarmichael /\ [][Tests]_vars

-----------------------------------------------------------------------------
(* Large candidates.  Python's int is unbounded; the integers of the model *)
(* above end at 2^31.  For candidates beyond that a number is its sequence  *)
(* of limbs, least significant first, without a leading zero limb (0 is     *)
(* <<>>), and the arithmetic of int is restated on limbs.  A call of        *)
(* mod_exp is then taken one call or return per step, and an operator      *)
(* tests an operand against <<>> before it works on it, which keeps the    *)
(* evaluation of an expression shallow.                                    *)

Base == 2 ^ 15

Limb(u, j) == IF j <= Len(u) THEN u[j] ELSE 0

\* u without its leading zero limbs
Trim(u) ==
    LET used == {j \in 1 .. Len(u) : u[j] # 0}
    IN  SubSeq(u, 1, IF used = {} THEN 0
                     ELSE CHOOSE j \in used : \A m \in used : m <= j)

\* u + v: a limb takes a carry when a limb below it overflows and every
\* limb between the two is Base - 1
BigAdd(u, v) ==
    IF u = <<>> THEN v
    ELSE IF v = <<>> THEN u
    ELSE LET len == (IF Len(u) > Len(v) THEN Len(u) ELSE Len(v)) + 1
             s == [j \in 1 .. len |-> Limb(u, j) + Limb(v, j)]
             c == [j \in 1 .. len |->
                     IF \E p \in 1 .. j - 1 :
                           /\ s[p] >= Base
                           /\ \A m \in p + 1 .. j - 1 : s[m] = Base - 1
                     THEN 1 ELSE 0]
         IN  Trim([j \in 1 .. len |-> (s[j] + c[j]) % Base])

\* u - v, for u >= v: a limb lends when a limb below it is short and every
\* limb between the two is 0
BigSub(u, v) ==
    IF v = <<>> THEN u
    ELSE LET d == [j \in 1 .. Len(u) |-> u[j] - Limb(v, j)]
             b == [j \in 1 .. Len(u) |->
                     IF \E p \in 1 .. j - 1 :
                           /\ d[p] < 0
                           /\ \A m \in p + 1 .. j - 1 : d[m] = 0
                     THEN 1 ELSE 0]
         IN  Trim([j \in 1 .. Len(u) |-> (d[j] - b[j] + Base) % Base])

\* u < v
BigLess(u, v) ==
    IF Len(u) # Len(v) THEN Len(u) < Len(v)
    ELSE \E j \in 1 .. Len(u) :
            /\ u[j] < v[j]
            /\ \A m \in j + 1 .. Len(u) : u[m] = v[m]

\* u * d, for a limb d
BigMulLimb(u, d) ==
    IF u = <<>> \/ d = 0 THEN <<>>
    ELSE BigAdd(Trim([j \in 1 .. Len(u) |-> (u[j] * d) % Base]),
                Trim(<<0>> \o [j \in 1 .. Len(u) |-> (u[j] * d) \div Base]))

\* u * (v[lo] + v[lo + 1] * Base + ... + v[hi] * Base^(hi - lo)) * Base^(lo - 1),
\* the sum of one half of the rows and of the other half
RECURSIVE MulRows(_, _, _, _)
MulRows(u, v, lo, hi) ==
    IF lo = hi
    THEN LET row == BigMulLimb(u, v[lo])
         IN  IF row = <<>> THEN <<>> ELSE [j \in 1 .. lo - 1 |-> 0] \o row
    ELSE BigAdd(MulRows(u, v, lo, (lo + hi) \div 2),
                MulRows(u, v, (lo + hi) \div 2 + 1, hi))

\* u * v
BigMul(u, v) ==
    IF u = <<>> \/ v = <<>> THEN <<>>
    ELSE IF Len(u) < Len(v) THEN MulRows(v, u, 1, Len(u))
    ELSE MulRows(u, v, 1, Len(v))

\* u // 2
BigHalf(u) ==
    Trim([j \in 1 .. Len(u) |->
            (u[j] \div 2) + (Limb(u, j + 1) % 2) * (Base \div 2)])

\* u % 2 == 1
BigOdd(u) == u # <<>> /\ u[1] % 2 = 1

RECURSIVE Reduce(_, _)
Reduce(r, n) == IF BigLess(r, n) THEN r ELSE Reduce(BigSub(r, n), n)

\* (r * Base + limb) % n for r < n, n with a top limb of at least Base / 2:
\* the quotient is estimated from below by the two top limbs, and what is
\* left is reduced by subtraction (at most a few times)
ModStep(r, limb, n) ==
    LET m == Len(n)
        R == Trim(<<limb>> \o r)
        t == Limb(R, m + 1) * Base + Limb(R, m)
        q == t \div (n[m] + 1)
        D == BigSub(R, BigMulLimb(n, q))
    IN  IF D = <<>> THEN <<>> ELSE Reduce(D, n)

\* the limbs of u from the j-th on, modulo n: the Len(n) - 1 top limbs of u
\* are below n as they are
RECURSIVE ModFrom(_, _, _)
ModFrom(u, n, j) ==
    IF j > Len(u) - Len(n) + 1 THEN SubSeq(u, j, Len(u))
    ELSE LET r == ModFrom(u, n, j + 1)
         IN  IF r = <<>> /\ u[j] = 0 THEN <<>> ELSE ModStep(r, u[j], n)

\* u % n, for n with a top limb of at least Base / 2
BigMod(u, n) == ModFrom(u, n, 1)

BigBitLength(u) ==
    IF u = <<>> THEN 0
    ELSE BitLength(Base - 1) * (Len(u) - 1) + BitLength(u[Len(u)])

RECURSIVE BigShiftRight(_, _)
BigShiftRight(u, sh) == IF sh = 0 THEN u ELSE BigShiftRight(BigHalf(u), sh - 1)

RECURSIVE BigShiftLeft(_, _)
BigShiftLeft(u, sh) ==
    IF sh = 0 THEN u ELSE BigShiftLeft(BigAdd(u, u), sh - 1)

\* the double nearest to the integer u (ties to even)
LargeRoundToDouble(u) ==
    IF BigBitLength(u) <= DoubleMantissaBits THEN u
    ELSE LET sh == BigBitLength(u) - DoubleMantissaBits
             q == BigShiftRight(u, sh)
             r == BigSub(u, BigShiftLeft(q, sh))
             unit == BigShiftLeft(<<1>>, sh)
             twice == BigAdd(r, r)
         IN  IF BigLess(unit, twice) \/ (twice = unit /\ BigOdd(q))
             THEN BigShiftLeft(BigAdd(q, <<1>>), sh)
             ELSE BigShiftLeft(q, sh)

\* exponent / 2, for an exponent whose value is even (the while guard)
LargeTrueDivBy2(e) == PyFloat(LargeRoundToDouble(BigHalf(e.val)))

\* The candidates: two primes and a composite of 60 bits.
\*   721395478903349251 = 2 * 3^2 * 5^3 * 7^3 * 11^2 * 13^3 * 17^2 * 23^3 + 1
\*   599368510441701001 = 2^3 * 3^6 * 5^3 * 7 * 11^2 * 13 * 17 * 19^2 * 23^3 + 1
\*   721395478903349253 = 721395478903349251 + 2
LargeCandidates ==
    { <<24579, 23862, 9590, 20503>>,
      <<16009, 9437, 2544, 17035>>,
      <<24581, 23862, 9590, 20503>> }

MaxLargeK == 3

\* witnesses random.randint(1, N - 1) can return, among 2^60
SampleWitnesses(n) == {<<1>>, <<2>>, <<3>>, <<5>>, BigSub(n, <<1>>)}

InitLarge ==
    /\ entry = "run_miller_rabin"
    /\ N \in LargeCandidates
    /\ k \in 1 .. MaxLargeK
    /\ x = 0 /\ y = 0 /\ result = -1
    /\ tape = <<>>
    /\ pos = 1
    /\ pc = "mr_for"
    /\ i = 1
    /\ a = <<>>
    /\ exponent = PyInt(<<>>)
    /\ z = <<>>
    /\ fermat = "none"
    /\ mr = "none"
    /\ fdraws = 0
    /\ mdraws = 0
    /\ passed = <<>>
    /\ fcoprime = TRUE
    /\ mcoprime = TRUE
    /\ stack = <<>>
    /\ ret = NoReturn

Returned(v) == [has |-> TRUE, val |-> v]

(* mod_exp(a, y, N), one call or return per step.  `stack` holds the y of   *)
(* every pending call (x and N are the same in all of them); `ret` holds    *)
(* the value a call has just returned to the call below it.                 *)

\* `if y == 0: return 1`
LargeModExpBase ==
    /\ stack # <<>>
    /\ ~ret.has
    /\ stack[Len(stack)] = <<>>
    /\ stack' = SubSeq(stack, 1, Len(stack) - 1)
    /\ ret' = Returned(<<1>>)
    /\ UNCHANGED <<entry, N, k, x, y, result, tape, pos, pc, i, a, exponent, z,
                   fermat, mr, fdraws, mdraws, passed, fcoprime, mcoprime>>

\* `z = mod_exp(x, y // 2, N)`: the call
LargeModExpRecurse ==
    /\ stack # <<>>
    /\ ~ret.has
    /\ stack[Len(stack)] # <<>>
    /\ stack' = Append(stack, BigHalf(stack[Len(stack)]))
    /\ UNCHANGED <<entry, N, k, x, y, result, tape, pos, pc, i, a, exponent, z,
                   fermat, mr, fdraws, mdraws, passed, fcoprime, mcoprime, ret>>

\* the value mod_exp(bx, by, bN) returns once the inner call has returned zz
large_mod_exp_result(bx, by, bN, zz) ==
    LET sq == BigMul(zz, zz)
        prod == IF sq = <<>> THEN <<>> ELSE BigMul(bx, sq)
    IN  IF ~BigOdd(by)
        THEN (IF sq = <<>> THEN <<>> ELSE BigMod(sq, bN))
        ELSE (IF prod = <<>> THEN <<>> ELSE BigMod(prod, bN))

\* the inner call has returned: `return (z ** 2) % N` or
\* `return (x * (z ** 2)) % N`
LargeModExpReturn ==
    /\ stack # <<>>
    /\ ret.has
    /\ stack' = SubSeq(stack, 1, Len(stack) - 1)
    /\ ret' = Returned(large_mod_exp_result(a, stack[Len(stack)], N, ret.val))
    /\ UNCHANGED <<entry, N, k, x, y, result, tape, pos, pc, i, a, exponent, z,
                   fermat, mr, fdraws, mdraws, passed, fcoprime, mcoprime>>

\* one iteration of `for i in range(1, k)`: the draw, and the call
\* mod_exp(a, N - 1, N)
LargeMillerRabinTrial ==
    /\ pc = "mr_for"
    /\ i < k
    /\ \E w \in SampleWitnesses(N) :
         /\ a' = w
         /\ mdraws' = mdraws + 1
         /\ stack' = <<BigSub(N, <<1>>)>>
         /\ ret' = NoReturn
         /\ pc' = "mr_initial"
    /\ UNCHANGED <<entry, N, k, x, y, result, tape, pos, i, exponent, z, fermat,
                   mr, fdraws, passed, fcoprime, mcoprime>>

\* `if mod_exp(a, N - 1, N) == 1`, once the call has returned
LargeMillerRabinInitial ==
    /\ pc = "mr_initial"
    /\ stack = <<>>
    /\ ret.has
    /\ IF ret.val = <<1>>
       THEN /\ exponent' = PyInt(BigSub(N, <<1>>))
            /\ z' = <<1>>
            /\ passed' = <<>>
            /\ pc' = "mr_while"
            /\ UNCHANGED mr
       ELSE /\ mr' = "composite"
            /\ pc' = "done"
            /\ UNCHANGED <<exponent, z, passed>>
    /\ ret' = NoReturn
    /\ UNCHANGED <<entry, N, k, x, y, result, tape, pos, i, a, fermat, fdraws,
                   mdraws, fcoprime, mcoprime, stack>>

large_while_cond == ~BigOdd(exponent.val) /\ z = <<1>>

\* one pass of the while loop: the division, and the call
\* mod_exp(a, exponent, N)
LargeMillerRabinHalve ==
    /\ pc = "mr_while"
    /\ large_while_cond
    /\ exponent' = LargeTrueDivBy2(exponent)
    /\ passed' = Append(passed, exponent')
    /\ stack' = <<exponent'.val>>
    /\ ret' = NoReturn
    /\ pc' = "mr_z"
    /\ UNCHANGED <<entry, N, k, x, y, result, tape, pos, i, a, z, fermat, mr,
                   fdraws, mdraws, fcoprime, mcoprime>>

\* `z = mod_exp(a, exponent, N)`: the assignment, once the call has returned
LargeMillerRabinAssign ==
    /\ pc = "mr_z"
    /\ stack = <<>>
    /\ ret.has
    /\ z' = ret.val
    /\ ret' = NoReturn
    /\ pc' = "mr_while"
    /\ UNCHANGED <<entry, N, k, x, y, result, tape, pos, i, a, exponent, fermat,
                   mr, fdraws, mdraws, passed, fcoprime, mcoprime, stack>>

\* `if z % N != N - 1 and z % N != 1`
large_final_fails(zz, n) ==
    BigMod(zz, n) # BigSub(n, <<1>>) /\ BigMod(zz, n) # <<1>>

LargeMillerRabinFinal ==
    /\ pc = "mr_while"
    /\ ~large_while_cond
    /\ IF large_final_fails(z, N)
       THEN /\ mr' = "composite"
            /\ pc' = "done"
            /\ UNCHANGED <<i, a, exponent, z, passed>>
       ELSE /\ i' = i + 1
            /\ pc' = "mr_for"
            /\ a' = <<>>
            /\ exponent' = PyInt(<<>>)
            /\ z' = <<>>
            /\ passed' = <<>>
            /\ UNCHANGED mr
    /\ UNCHANGED <<entry, N, k, x, y, result, tape, pos, fermat, fdraws, mdraws,
                   fcoprime, mcoprime, stack, ret>>

LargeMillerRabinReturnPrime ==
    /\ pc = "mr_for"
    /\ ~(i < k)
    /\ mr' = "prime"
    /\ pc' = "done"
    /\ UNCHANGED <<entry, N, k, x, y, result, tape, pos, i, a, exponent, z,
                   fermat, fdraws, mdraws, passed, fcoprime, mcoprime, stack, ret>>

NextLarge ==
    \/ LargeModExpBase
    \/ LargeModExpRecurse
    \/ LargeModExpReturn
    \/ LargeMillerRabinTrial
    \/ LargeMillerRabinInitial
    \/ LargeMillerRabinHalve
    \/ LargeMillerRabinAssign
    \/ LargeMillerRabinFinal
    \/ LargeMillerRabinReturnPrime

\* run_miller_rabin(N, k) on the large candidates
SpecLarge == InitLarge /\ [][NextLarge]_vars

-----------------------------------------------------------------------------
(* Reference notions the properties are stated with *)

RECURSIVE Power(_, _)
Power(b, e) == IF e = 0 THEN 1 ELSE b * Power(b, e - 1)

IsPrime(n) == n >= 2 /\ \A d \in 2 .. n - 1 : n % d # 0

(* Powers modulo n of numbers held as limbs.  b^e mod n is computed a limb *)
(* of e at a time, from the definition of a power:                         *)
(* b^(Base * h + l) = (b^h)^Base * b^l, with Base = 32^3 and l written in  *)
(* base 32.                                                                *)

\* v has its value (a LET definition gets its value where it is first used)
Computed(v) == v = v

MulMod(u, v, n) ==
    LET p == BigMul(u, v)
    IN  IF p = <<>> THEN <<>> ELSE BigMod(p, n)

\* h^32 mod n
Pow32(h, n) ==
    LET h2 == MulMod(h, h, n)
        h4 == MulMod(h2, h2, n)
        h8 == MulMod(h4, h4, n)
        h16 == MulMod(h8, h8, n)
    IN  IF h2 = <<>> \/ h4 = <<>> \/ h8 = <<>> \/ h16 = <<>>
        THEN <<>> ELSE MulMod(h16, h16, n)

\* b^w mod n, for w < 32
PowWindow(b, w, n) ==
    LET b2 == MulMod(b, b, n)
        b4 == MulMod(b2, b2, n)
        b8 == MulMod(b4, b4, n)
        b16 == MulMod(b8, b8, n)
        m1 == IF w % 2 = 1 THEN b ELSE <<1>>
        m2 == IF (w \div 2) % 2 = 1 THEN MulMod(m1, b2, n) ELSE m1
        m4 == IF (w \div 4) % 2 = 1 THEN MulMod(m2, b4, n) ELSE m2
        m8 == IF (w \div 8) % 2 = 1 THEN MulMod(m4, b8, n) ELSE m4
    IN  IF /\ Computed(b2) /\ Computed(b4) /\ Computed(b8) /\ Computed(b16)
           /\ Computed(m2) /\ Computed(m4) /\ Computed(m8)
        THEN IF (w \div 16) % 2 = 1 THEN MulMod(m8, b16, n) ELSE m8
        ELSE <<>>

\* b^d mod n, for a limb d
PowLimb(b, d, n) ==
    LET w0 == PowWindow(b, d % 32, n)
        w1 == PowWindow(b, (d \div 32) % 32, n)
        w2 == PowWindow(b, d \div 1024, n)
        p1 == Pow32(w1, n)
        p2 == Pow32(w2, n)
        p3 == Pow32(p2, n)
        p01 == MulMod(w0, p1, n)
    IN  IF /\ Computed(w0) /\ Computed(w1) /\ Computed(w2)
           /\ Computed(p1) /\ Computed(p2) /\ Computed(p3) /\ Computed(p01)
        THEN MulMod(p01, p3, n) ELSE <<>>

RECURSIVE BigPowMod(_, _, _)
BigPowMod(b, e, n) ==
    IF e = <<>> THEN <<1>>
    ELSE LET h == BigPowMod(b, Tail(e), n)
             h1 == Pow32(h, n)
             h2 == Pow32(h1, n)
             h3 == Pow32(h2, n)
             low == PowLimb(b, e[1], n)
         IN  IF h = <<>> \/ h1 = <<>> \/ h2 = <<>> \/ h3 = <<>> \/ low = <<>>
             THEN <<>> ELSE MulMod(h3, low, n)

\* u modulo a divisor d < Base, and the quotient of u by d
RECURSIVE RemSmallFrom(_, _, _)
RemSmallFrom(u, d, j) ==
    IF j > Len(u) THEN 0 ELSE (RemSmallFrom(u, d, j + 1) * Base + u[j]) % d

BigModSmall(u, d) == RemSmallFrom(u, d, 1)

RECURSIVE DivSmallFrom(_, _, _)
DivSmallFrom(u, d, j) ==
    IF j > Len(u) THEN <<>>
    ELSE <<(RemSmallFrom(u, d, j + 1) * Base + u[j]) \div d>>
            \o DivSmallFrom(u, d, j + 1)

BigDivSmall(u, d) == Trim(DivSmallFrom(u, d, 1))

\* the number of factors 2 of u # 0
RECURSIVE BigTwoAdicity(_)
BigTwoAdicity(u) == IF BigOdd(u) THEN 0 ELSE 1 + BigTwoAdicity(BigHalf(u))

\* w is a strong probable prime witness for n: with n - 1 = 2^s * d, d odd,
\* w^d = 1 or w^(2^r * d) = n - 1 (mod n) for some r < s
LargeStrongProbablePrime(w, n) ==
    LET m == BigSub(n, <<1>>)
        s == BigTwoAdicity(m)
        d == BigShiftRight(m, s)
    IN  \/ BigPowMod(w, d, n) = <<1>>
        \/ \E r \in 0 .. s - 1 : BigPowMod(w, BigShiftLeft(d, r), n) = m

(* Primality of a candidate by Lucas's criterion: n is prime when n - 1 is *)
(* a product of the primes below and some g has g^(n-1) = 1 and            *)
(* g^((n-1)/q) # 1 (mod n) for every prime q dividing n - 1.  A candidate  *)
(* that has no such certificate is not said to be prime.                   *)
SmallPrimes == <<2, 3, 5, 7, 11, 13, 17, 19, 23>>

MaxGenerator == 43

RECURSIVE StripFactor(_, _)
StripFactor(m, q) ==
    IF BigModSmall(m, q) = 0 THEN StripFactor(BigDivSmall(m, q), q) ELSE m

RECURSIVE StripFactorsFrom(_, _)
StripFactorsFrom(m, j) ==
    IF m = <<1>> \/ j > Len(SmallPrimes) THEN m
    ELSE StripFactorsFrom(StripFactor(m, SmallPrimes[j]), j + 1)

LucasCertificate(n, g) ==
    LET m == BigSub(n, <<1>>)
    IN  /\ BigPowMod(g, m, n) = <<1>>
        /\ \A j \in 1 .. Len(SmallPrimes) :
              BigModSmall(m, SmallPrimes[j]) = 0
                  => BigPowMod(g, BigDivSmall(m, SmallPrimes[j]), n) # <<1>>

LargeIsPrime(n) ==
    /\ StripFactorsFrom(BigSub(n, <<1>>), 1) = <<1>>
    /\ \E g \in 2 .. MaxGenerator : LucasCertificate(n, <<g>>)

IsTest == entry \in {"run_fermat", "run_miller_rabin", "prime_test", "compare"}

RunsFermat == entry \in {"run_fermat", "prime_test", "compare"}

RunsMillerRabin == entry \in {"run_miller_rabin", "prime_test", "compare"}

-----------------------------------------------------------------------------
(* C1: for x >= 0, y >= 0 and N >= 1, mod_exp(x, y, N) returns (x^y) mod N, *)
(* the base case y = 0 included, where that is 1 mod N.                    *)
C1_ModExpIsPowerMod ==
    (entry = "mod_exp" /\ pc = "done" /\ x >= 0)
        => result = Power(x, y) % N

(* C2: for integer x, y >= 0 and N >= 1 the value mod_exp(x, y, N) returns  *)
(* lies in 0 .. N - 1; with N = 1 it is 0.                                  *)
C2_ModExpInRange ==
    (entry = "mod_exp" /\ pc = "done")
        => /\ result \in 0 .. N - 1
           /\ N = 1 => result = 0

(* C3: for N >= 2 and k >= 1, run_fermat draws one witness of 1 .. N - 1    *)
(* per trial, never more than k, stops drawing once it has returned, and    *)
(* returns "prime" only after exactly k witnesses were drawn.               *)
C3_FermatRunsKTrials ==
    (RunsFermat /\ N >= 2 /\ k >= 1)
        => /\ fdraws <= k
           /\ fermat = "prime" => fdraws = k

(* C4: for N >= 2 and k >= 1, run_miller_rabin draws at most k witnesses    *)
(* and returns "prime" only after exactly k witnesses were drawn and have   *)
(* all passed.                                                              *)
C4_MillerRabinRunsKTrials ==
    (RunsMillerRabin /\ N >= 2 /\ k >= 1)
        => /\ mdraws <= k
           /\ mr = "prime" => mdraws = k

(* C5: for a prime N >= 2 and k >= 1 no witness of 1 .. N - 1 makes         *)
(* run_miller_rabin return "composite": it returns "composite" only for a   *)
(* candidate that is not prime.  Stated for the large candidates.           *)
C5_PrimesNeverComposite ==
    (entry = "run_miller_rabin" /\ k >= 1 /\ mr = "composite")
        => ~LargeIsPrime(N)

(* C6: for the Carmichael numbers 561 and 1105, run_fermat does not return  *)
(* "composite" as long as every witness it drew is coprime to N, and so     *)
(* returns "prime" on such witnesses; run_miller_rabin returns "composite"  *)
(* on some witnesses coprime to N (the witness state).                      *)
C6_CarmichaelPassesFermat ==
    (N \in CarmichaelNumbers /\ ~IsPrime(N) /\ fcoprime)
        => /\ fermat # "composite"
           /\ fermat = "none" => pc = "fermat_for"

C6_Witness ==
    /\ entry = "prime_test" /\ pc = "done"
    /\ N \in CarmichaelNumbers /\ k = CarmichaelK
    /\ fcoprime /\ fdraws = k - 1 /\ fermat = "prime"
    /\ mcoprime /\ mr = "composite"

(* C7: called with N < 2 or k < 1, the tests report an invalid-input error  *)
(* before any witness is drawn and return no verdict.                       *)
C7_InvalidInputFailsFast ==
    (IsTest /\ (N < 2 \/ k < 1))
        => /\ fermat = "none" /\ mr = "none"
           /\ fdraws = 0 /\ mdraws = 0
           /\ pc # "done"

(* C8: the exponents the while loop hands to mod_exp are exactly           *)
(* (N-1)/2, (N-1)/4, ...: the j-th is positive and 2^j times it is N - 1,   *)
(* and there are at most as many as N - 1 has factors 2.  Stated for the    *)
(* large candidates, on the values of the exponents whatever their type.    *)
C8_DescentExponents ==
    (entry = "run_miller_rabin" /\ passed # <<>>)
        => /\ \A j \in 1 .. Len(passed) :
                /\ passed[j].val # <<>>
                /\ BigShiftLeft(passed[j].val, j) = BigSub(N, <<1>>)
           /\ Len(passed) <= BigTwoAdicity(BigSub(N, <<1>>))

(* C9: fed the same witnesses, run_miller_rabin returns "composite"         *)
(* whenever run_fermat does ("prime" from run_miller_rabin implies "prime"  *)
(* from run_fermat), and it stops no later: it draws no more witnesses.     *)
C9_MillerRabinAtLeastAsStrict ==
    (entry = "compare" /\ pc = "done")
        => /\ fermat = "composite" => mr = "composite"
           /\ mr = "prime" => fermat = "prime"
           /\ mdraws <= fdraws

C9_Witness ==
    /\ entry = "compare" /\ pc = "done"
    /\ fermat = "prime" /\ mr = "composite"
    /\ mdraws < fdraws

(* C10: a Miller-Rabin trial with witness a passes if and only if a is a    *)
(* strong probable prime witness for N: a^d = 1 or a^(2^r * d) = N - 1      *)
(* (mod N) for some r < s, where N - 1 = 2^s * d with d odd.                *)
(* Stated for the large candidates: a trial that ends passes on a strong    *)
(* probable prime witness and reports "composite" on any other.            *)
C10_TrialIsStrongProbablePrime ==
    [][ /\ (pc = "mr_while" /\ pc' = "mr_for")
            => LargeStrongProbablePrime(a, N)
        /\ (mr = "none" /\ mr' = "composite")
            => ~LargeStrongProbablePrime(a, N)
      ]_vars

=============================================================================
